---- MODULE Spec2Model ----
(***************************************************************************)
(* Model of src/app.py: the LINE webhook endpoint, the per-user chat       *)
(* histories kept in the module-level dict chat_histories, the OpenAI      *)
(* completion call and the reply splitting.                                *)
(*                                                                         *)
(* Python lists are objects: chat_histories maps a user to a reference to  *)
(* a list, get_chat_history returns that reference (or a newly built list  *)
(* when the user has no entry) and list.append mutates the object in       *)
(* place.  The model keeps a heap of list objects for that reason.  A      *)
(* worker thread runs one request at a time; a step of the model is one    *)
(* access to shared state (a dict read, a list append, a dict store) or    *)
(* one outbound call, which is the granularity at which the interpreter    *)
(* can switch threads.  A completion call and its result are one step:     *)
(* the result is local to the thread until it is appended.                 *)
(*                                                                         *)
(* Spec runs the requests on concurrent worker threads, SeqSpec one after  *)
(* another, and FmtSpec runs the reply splitting alone on every reply text *)
(* up to MaxLen characters.                                                *)
(*                                                                         *)
(* A body holds one event.  Strings are sequences of one-character         *)
(* strings; a blob URL is the sequence of the parts the f-string joins.    *)
(* log, sent, replied, pre, okCount and errCount record what a request did *)
(* and are read by the properties only.                                    *)
(***************************************************************************)
EXTENDS Naturals, Sequences, FiniteSets

VARIABLES
    chat_histories,  \* user -> reference into heap, 0 when the dict has no entry
    heap,            \* the list objects allocated so far, a reference is an index
    pc,              \* thread -> position in the request it is handling
    req,             \* thread -> the request being handled (header, event)
    history,         \* thread -> local variable `history`, a reference (0: unset)
    fresh,           \* thread -> the last get_chat_history built the default list
    ai_reply,        \* thread -> local variable `ai_reply` of ask_openai
    status,          \* thread -> HTTP status of the last response (0: none yet)
    err,             \* thread -> text of the abort message of the last response
    log,             \* thread -> effects of the current request, in order
    sent,            \* thread -> `messages` argument of its completion call
    replied,         \* thread -> the reply_message calls of the current request
    pre,             \* thread -> the sender's history when the request arrived
    okCount,         \* user -> message events answered 200
    errCount,        \* user -> message events answered 500
    nreq,            \* requests received so far
    fmt_in,          \* reply formatter alone: the reply text given to split
    fmt_out,         \* reply formatter alone: the segments split returned
    fmt_pc           \* reply formatter: "off" when not run alone, "in", then "out"

vars == <<chat_histories, heap, pc, req, history, fresh, ai_reply, status, err,
          log, sent, replied, pre, okCount, errCount, nreq, fmt_in, fmt_out, fmt_pc>>

store == <<chat_histories, heap>>
locals == <<history, fresh, ai_reply, log, sent, replied>>
counts == <<okCount, errCount>>
formatter == <<fmt_in, fmt_out, fmt_pc>>

----------------------------------------------------------------------------
(* Bounds and input sets *)

\* Requests received under Spec, under SeqSpec; reply text length under FmtSpec
MaxRequests == 2
MaxSeqRequests == 3
MaxLen == 4

Threads == {"t1", "t2"}
Users == {"U1", "U2"}
Texts == {<<"q">>}
MessageIds == {"m1"}
ImageKinds == {"unknown"}
Signatures == {"none", "invalid", "valid"}
Tokens == {"r1"}
NL == "\n"
Replies == {<<"a">>, <<"a", NL, NL, "b">>}
Chars == {"a", "b", NL}

----------------------------------------------------------------------------
(* Messages *)

Message(role, kind, payload) == [role |-> role, kind |-> kind, content |-> payload]

SystemMessage == Message("system", "text", <<"SYSTEM">>)

BlobUrl(message_id, user_id, ext) == <<"bakingmentor", "userimages", message_id, user_id, ext>>

UserTextMessage(user_text) == Message("user", "text", user_text)

UserImageMessage(url) == Message("user", "image_url", url)

AssistantMessage(reply) == Message("assistant", "text", reply)

----------------------------------------------------------------------------
(* Reply formatter: str.split on the two-character delimiter *)

RECURSIVE SplitFrom(_, _, _)
SplitFrom(s, start, i) ==
    IF i + 1 > Len(s)
    THEN <<SubSeq(s, start, Len(s))>>
    ELSE IF s[i] = NL /\ s[i + 1] = NL
         THEN <<SubSeq(s, start, i - 1)>> \o SplitFrom(s, i + 2, i + 2)
         ELSE SplitFrom(s, start, i + 1)

\* Variant: empty segments are dropped, as str.split() without a separator does
Split_dropping_empty(s) == SelectSeq(SplitFrom(s, 1, 1), LAMBDA seg : seg # <<>>)

Split(s) == SplitFrom(s, 1, 1)

----------------------------------------------------------------------------
(* Inbound requests: the signature header and the one event of the body *)

\* The events a body can hold: a text message, an image message, or an event
\* no handler is registered for
Events ==
    [type : {"text"}, user : Users, text : Texts, message_id : MessageIds,
     image : {"-"}, reply_token : Tokens]
    \cup
    [type : {"image"}, user : Users, text : {<<>>}, message_id : MessageIds,
     image : ImageKinds, reply_token : Tokens]
    \cup
    [type : {"other"}, user : Users, text : {<<>>}, message_id : MessageIds,
     image : {"-"}, reply_token : Tokens]

WithSignature(e, sig) ==
    [signature |-> sig, type |-> e.type, user |-> e.user, text |-> e.text,
     message_id |-> e.message_id, image |-> e.image, reply_token |-> e.reply_token]

\* A body is parsed only once its signature has been verified, so one body
\* stands for all bodies of the requests that are not signed properly
UnsignedBody == CHOOSE e \in Events : e.type = "text"

Requests ==
    {WithSignature(e, "valid") : e \in Events}
    \cup {WithSignature(UnsignedBody, sig) : sig \in Signatures \ {"valid"}}

NoRequest ==
    [signature |-> "-", type |-> "-", user |-> "-", text |-> <<>>,
     message_id |-> "-", image |-> "-", reply_token |-> "-"]

\* imghdr.what(None, h=binary) or 'jpg'
Ext(r) == IF r.image = "unknown" THEN "jpg" ELSE r.image

\* The message add_user_text / add_user_image appends for the event
UserMessage(r) ==
    IF r.type = "text"
    THEN UserTextMessage(r.text)
    ELSE UserImageMessage(BlobUrl(r.message_id, r.user, Ext(r)))

----------------------------------------------------------------------------
(* Conversation store *)

\* Variant: the default list is not seeded with the system message
get_chat_history_unseeded(user_id) ==
    IF chat_histories[user_id] # 0
    THEN [ref |-> chat_histories[user_id], hp |-> heap, built |-> FALSE]
    ELSE [ref |-> Len(heap) + 1, hp |-> Append(heap, <<>>), built |-> TRUE]

\* Variant: the default is one list object built once and handed to every
\* user without an entry
get_chat_history_shared_default(user_id) ==
    IF chat_histories[user_id] # 0
    THEN [ref |-> chat_histories[user_id], hp |-> heap, built |-> FALSE]
    ELSE IF heap # <<>>
    THEN [ref |-> 1, hp |-> heap, built |-> TRUE]
    ELSE [ref |-> 1, hp |-> <<<<SystemMessage>>>>, built |-> TRUE]

\* chat_histories.get(user_id, [system message]): the stored list object, or
\* a list object built for this call when the dict has no entry for the user.
\* ref is the object returned, hp the heap after the call.
get_chat_history(user_id) ==
    IF chat_histories[user_id] # 0
    THEN [ref |-> chat_histories[user_id], hp |-> heap, built |-> FALSE]
    ELSE [ref |-> Len(heap) + 1, hp |-> Append(heap, <<SystemMessage>>), built |-> TRUE]

\* The value a read of the user's history yields in the current state
History(user_id) == get_chat_history(user_id).hp[get_chat_history(user_id).ref]

\* history.append(message) on the object a thread holds
ListAppend(ref, message) == [heap EXCEPT ![ref] = Append(@, message)]

----------------------------------------------------------------------------
(* Responses *)

Respond(t, code, message) ==
    /\ pc' = [pc EXCEPT ![t] = "idle"]
    /\ status' = [status EXCEPT ![t] = code]
    /\ err' = [err EXCEPT ![t] = message]

\* An exception in a handler: linewebhook's `except Exception` aborts with 500
Raise(t, message) ==
    /\ Respond(t, 500, message)
    /\ errCount' = [errCount EXCEPT ![req[t].user] = @ + 1]
    /\ UNCHANGED okCount

Goto(t, label) ==
    /\ pc' = [pc EXCEPT ![t] = label]
    /\ UNCHANGED <<status, err, counts>>

Logged(t, effect) == log' = [log EXCEPT ![t] = Append(@, effect)]

----------------------------------------------------------------------------
(* linewebhook *)

\* Lines 81-89: read the header and the body, abort 400 without a signature
linewebhook(t) ==
    /\ pc[t] = "idle"
    /\ nreq' = nreq + 1
    /\ \E r \in Requests :
         /\ req' = [req EXCEPT ![t] = r]
         /\ pre' = [pre EXCEPT ![t] = History(r.user)]
         /\ IF r.signature = "none"
            THEN Respond(t, 400, "Missing signature")
            ELSE /\ pc' = [pc EXCEPT ![t] = "handle"]
                 /\ status' = [status EXCEPT ![t] = 0]
                 /\ err' = [err EXCEPT ![t] = ""]
    /\ history' = [history EXCEPT ![t] = 0]
    /\ fresh' = [fresh EXCEPT ![t] = FALSE]
    /\ ai_reply' = [ai_reply EXCEPT ![t] = <<>>]
    /\ log' = [log EXCEPT ![t] = <<>>]
    /\ sent' = [sent EXCEPT ![t] = <<>>]
    /\ replied' = [replied EXCEPT ![t] = <<>>]
    /\ UNCHANGED <<store, counts, formatter>>

\* Variant: the event is dispatched without verifying the signature
handle_unverified(t) ==
    /\ pc[t] = "handle"
    /\ IF req[t].type = "text"
       THEN Goto(t, "add_get")
       ELSE IF req[t].type = "image"
       THEN Goto(t, "get_message_content")
       ELSE Respond(t, 200, "OK") /\ UNCHANGED counts
    /\ UNCHANGED <<store, req, locals, pre, nreq, formatter>>

\* Lines 91-100: line_webhook_handler.handle verifies the signature, then
\* dispatches the event to the handler registered for its message type
handle(t) ==
    /\ pc[t] = "handle"
    /\ IF req[t].signature # "valid"
       THEN Respond(t, 400, "Invalid signature") /\ UNCHANGED counts
       ELSE IF req[t].type = "text"
       THEN Goto(t, "add_get")
       ELSE IF req[t].type = "image"
       THEN Goto(t, "get_message_content")
       ELSE Respond(t, 200, "OK") /\ UNCHANGED counts
    /\ UNCHANGED <<store, req, locals, pre, nreq, formatter>>

----------------------------------------------------------------------------
(* handle_image_message, lines 121-153 *)

\* Lines 127-129: download the image bytes from the platform
get_message_content(t) ==
    /\ pc[t] = "get_message_content"
    /\ \/ Goto(t, "upload_blob") /\ Logged(t, "download")
       \/ Raise(t, "download") /\ UNCHANGED log
    /\ UNCHANGED <<store, req, history, fresh, ai_reply, sent, replied, pre, nreq, formatter>>

\* Variant: a failed upload is swallowed and the handler goes on
upload_blob_failure_ignored(t) ==
    /\ pc[t] = "upload_blob"
    /\ Goto(t, "add_get")
    /\ \/ Logged(t, "upload")
       \/ UNCHANGED log
    /\ UNCHANGED <<store, req, history, fresh, ai_reply, sent, replied, pre, nreq, formatter>>

\* Lines 132-153: cache the bytes in a local file, upload them as a blob
upload_blob(t) ==
    /\ pc[t] = "upload_blob"
    /\ \/ Goto(t, "add_get") /\ Logged(t, "upload")
       \/ Raise(t, "upload") /\ UNCHANGED log
    /\ UNCHANGED <<store, req, history, fresh, ai_reply, sent, replied, pre, nreq, formatter>>

----------------------------------------------------------------------------
(* add_user_text, lines 51-54, and add_user_image, lines 57-61 *)

\* history = get_chat_history(user_id)
add_get(t) ==
    /\ pc[t] = "add_get"
    /\ LET got == get_chat_history(req[t].user) IN
         /\ history' = [history EXCEPT ![t] = got.ref]
         /\ fresh' = [fresh EXCEPT ![t] = got.built]
         /\ heap' = got.hp
    /\ Goto(t, "add_append")
    /\ UNCHANGED <<chat_histories, req, ai_reply, log, sent, replied, pre, nreq, formatter>>

\* history.append({"role": "user", "content": ...})
add_append(t) ==
    /\ pc[t] = "add_append"
    /\ heap' = ListAppend(history[t], UserMessage(req[t]))
    /\ Logged(t, "append_user")
    /\ Goto(t, "add_store")
    /\ UNCHANGED <<chat_histories, req, history, fresh, ai_reply, sent, replied, pre, nreq, formatter>>

\* chat_histories[user_id] = history
add_store(t) ==
    /\ pc[t] = "add_store"
    /\ chat_histories' = [chat_histories EXCEPT ![req[t].user] = history[t]]
    /\ Goto(t, "ask_get")
    /\ UNCHANGED <<heap, req, locals, pre, nreq, formatter>>

----------------------------------------------------------------------------
(* ask_openai, lines 64-76 *)

\* Line 65: history = get_chat_history(user_id)
ask_get(t) ==
    /\ pc[t] = "ask_get"
    /\ LET got == get_chat_history(req[t].user) IN
         /\ history' = [history EXCEPT ![t] = got.ref]
         /\ fresh' = [fresh EXCEPT ![t] = got.built]
         /\ heap' = got.hp
    /\ Goto(t, "ask_create")
    /\ UNCHANGED <<chat_histories, req, ai_reply, log, sent, replied, pre, nreq, formatter>>

\* Variant: a failed completion call takes the user message back out
ask_create_rollback(t) ==
    /\ pc[t] = "ask_create"
    /\ sent' = [sent EXCEPT ![t] = heap[history[t]]]
    /\ Logged(t, "gateway")
    /\ \/ \E reply \in Replies :
            /\ ai_reply' = [ai_reply EXCEPT ![t] = reply]
            /\ Goto(t, "ask_append")
            /\ UNCHANGED heap
       \/ /\ Raise(t, "gateway")
          /\ heap' = [heap EXCEPT ![history[t]] = SubSeq(@, 1, Len(@) - 1)]
          /\ UNCHANGED ai_reply
    /\ UNCHANGED <<chat_histories, req, history, fresh, replied, pre, nreq, formatter>>

\* Lines 66-67: the completion call with messages=history; it returns the
\* top choice's text or raises
ask_create(t) ==
    /\ pc[t] = "ask_create"
    /\ sent' = [sent EXCEPT ![t] = heap[history[t]]]
    /\ Logged(t, "gateway")
    /\ \/ \E reply \in Replies :
            /\ ai_reply' = [ai_reply EXCEPT ![t] = reply]
            /\ Goto(t, "ask_append")
       \/ Raise(t, "gateway") /\ UNCHANGED ai_reply
    /\ UNCHANGED <<store, req, history, fresh, replied, pre, nreq, formatter>>

\* Variant: the assistant message is not recorded
ask_append_skipped(t) ==
    /\ pc[t] = "ask_append"
    /\ Logged(t, "append_assistant")
    /\ Goto(t, "ask_store")
    /\ UNCHANGED <<store, req, history, fresh, ai_reply, sent, replied, pre, nreq, formatter>>

\* Variant: the reply is split first and its first segment is recorded
ask_append_first_segment(t) ==
    /\ pc[t] = "ask_append"
    /\ heap' = ListAppend(history[t], AssistantMessage(Split(ai_reply[t])[1]))
    /\ Logged(t, "append_assistant")
    /\ Goto(t, "ask_store")
    /\ UNCHANGED <<chat_histories, req, history, fresh, ai_reply, sent, replied, pre, nreq, formatter>>

\* Line 70: history.append({"role": "assistant", "content": ai_reply})
ask_append(t) ==
    /\ pc[t] = "ask_append"
    /\ heap' = ListAppend(history[t], AssistantMessage(ai_reply[t]))
    /\ Logged(t, "append_assistant")
    /\ Goto(t, "ask_store")
    /\ UNCHANGED <<chat_histories, req, history, fresh, ai_reply, sent, replied, pre, nreq, formatter>>

\* Line 71: chat_histories[user_id] = history
ask_store(t) ==
    /\ pc[t] = "ask_store"
    /\ chat_histories' = [chat_histories EXCEPT ![req[t].user] = history[t]]
    /\ Goto(t, "reply_message")
    /\ UNCHANGED <<heap, req, locals, pre, nreq, formatter>>

----------------------------------------------------------------------------
(* handle_text_message, lines 113-117, handle_image_message, lines 159-163 *)

\* Lines 75-76 and the list comprehension: one TextSendMessage per segment
reply_messages(reply) == Split(reply)

\* line_bot_api.reply_message(event.reply_token, reply_messages)
reply_message(t) ==
    /\ pc[t] = "reply_message"
    /\ replied' = [replied EXCEPT ![t] =
           Append(@, [reply_token |-> req[t].reply_token,
                      messages |-> reply_messages(ai_reply[t])])]
    /\ Logged(t, "reply")
    /\ \/ /\ Respond(t, 200, "OK")
          /\ okCount' = [okCount EXCEPT ![req[t].user] = @ + 1]
          /\ UNCHANGED errCount
       \/ Raise(t, "reply")
    /\ UNCHANGED <<store, req, history, fresh, ai_reply, sent, pre, nreq, formatter>>

----------------------------------------------------------------------------
(* Specifications *)

Init ==
    /\ chat_histories = [u \in Users |-> 0]
    /\ heap = <<>>
    /\ pc = [t \in Threads |-> "idle"]
    /\ req = [t \in Threads |-> NoRequest]
    /\ history = [t \in Threads |-> 0]
    /\ fresh = [t \in Threads |-> FALSE]
    /\ ai_reply = [t \in Threads |-> <<>>]
    /\ status = [t \in Threads |-> 0]
    /\ err = [t \in Threads |-> ""]
    /\ log = [t \in Threads |-> <<>>]
    /\ sent = [t \in Threads |-> <<>>]
    /\ replied = [t \in Threads |-> <<>>]
    /\ pre = [t \in Threads |-> <<>>]
    /\ okCount = [u \in Users |-> 0]
    /\ errCount = [u \in Users |-> 0]
    /\ nreq = 0
    /\ fmt_in = <<>>
    /\ fmt_out = <<>>
    /\ fmt_pc = "off"

Step(t) ==
    \/ handle(t)
    \/ get_message_content(t)
    \/ upload_blob(t)
    \/ add_get(t)
    \/ add_append(t)
    \/ add_store(t)
    \/ ask_get(t)
    \/ ask_create(t)
    \/ ask_append(t)
    \/ ask_store(t)
    \/ reply_message(t)

\* Requests handled by concurrent worker threads
Next == \E t \in Threads : (nreq < MaxRequests /\ linewebhook(t)) \/ Step(t)

Spec == Init /\ [][Next]_vars

\* Requests handled one at a time
AllIdle == \A t \in Threads : pc[t] = "idle"

SeqNext ==
    \E t \in Threads : (nreq < MaxSeqRequests /\ AllIdle /\ linewebhook(t)) \/ Step(t)

SeqSpec == Init /\ [][SeqNext]_vars

\* The reply formatter alone, on every reply text up to MaxLen characters
ReplyTexts == UNION {[1..n -> Chars] : n \in 0..MaxLen}

FmtInit ==
    /\ chat_histories = [u \in Users |-> 0]
    /\ heap = <<>>
    /\ pc = [t \in Threads |-> "idle"]
    /\ req = [t \in Threads |-> NoRequest]
    /\ history = [t \in Threads |-> 0]
    /\ fresh = [t \in Threads |-> FALSE]
    /\ ai_reply = [t \in Threads |-> <<>>]
    /\ status = [t \in Threads |-> 0]
    /\ err = [t \in Threads |-> ""]
    /\ log = [t \in Threads |-> <<>>]
    /\ sent = [t \in Threads |-> <<>>]
    /\ replied = [t \in Threads |-> <<>>]
    /\ pre = [t \in Threads |-> <<>>]
    /\ okCount = [u \in Users |-> 0]
    /\ errCount = [u \in Users |-> 0]
    /\ nreq = 0
    /\ fmt_in \in ReplyTexts
    /\ fmt_out = <<>>
    /\ fmt_pc = "in"

format ==
    /\ fmt_pc = "in"
    /\ fmt_out' = reply_messages(fmt_in)
    /\ fmt_pc' = "out"
    /\ UNCHANGED <<store, pc, req, locals, status, err, pre, counts, nreq, fmt_in>>

FmtSpec == FmtInit /\ [][format]_vars

----------------------------------------------------------------------------
(* Helpers of the properties *)

Range(h) == {h[i] : i \in DOMAIN h}

Last(h) == h[Len(h)]

IsPrefix(h, g) == Len(h) <= Len(g) /\ SubSeq(g, 1, Len(h)) = h

Occurrences(h, x) == Cardinality({i \in DOMAIN h : h[i] = x})

\* The effects of a request on the conversation, the media steps left out
Turn(t) == SelectSeq(log[t], LAMBDA e : e \notin {"download", "upload"})

\* The length of the run of newlines that ends at position i
RECURSIVE RunEnd(_, _)
RunEnd(s, i) == IF i = 0 \/ s[i] # NL THEN 0 ELSE 1 + RunEnd(s, i - 1)

\* Delimiter occurrences, counted without overlap from the left: a run of r
\* newlines holds r \div 2 of them, each ending at an even position of the run
Delimiters(s) == Cardinality({i \in DOMAIN s : s[i] = NL /\ RunEnd(s, i) % 2 = 0})

RECURSIVE Join(_)
Join(segments) ==
    IF Len(segments) = 1
    THEN segments[1]
    ELSE segments[1] \o <<NL, NL>> \o Join(Tail(segments))

Acts(t) == pc'[t] # pc[t]

----------------------------------------------------------------------------
(* Properties *)

\* C1: for every user with no entry in chat_histories, get_chat_history
\* returns a list holding exactly the system message, and the read is defined
\* for every user (it yields a list object of the heap).
C1_FreshHistoryIsSystemOnly ==
    /\ \A u \in Users :
         /\ get_chat_history(u).ref \in 1..Len(get_chat_history(u).hp)
         /\ chat_histories[u] = 0 => History(u) = <<SystemMessage>>
    /\ \A t \in Threads :
         (pc[t] = "add_append" /\ fresh[t]) => heap[history[t]] = <<SystemMessage>>

\* A handler has just read the history of a user without an entry, while the
\* store already holds another user's conversation
C1_Witness ==
    \E t \in Threads :
        /\ pc[t] = "add_append"
        /\ fresh[t]
        /\ chat_histories[req[t].user] = 0
        /\ \E u \in Users : chat_histories[u] # 0 /\ Len(History(u)) > 1

C3_BadSignatureNoEffect ==
    [][\A t \in Threads :
         req'[t].signature \in {"none", "invalid"} =>
            /\ log'[t] = <<>>
            /\ sent'[t] = <<>>
            /\ replied'[t] = <<>>
            /\ pc'[t] \in {"idle", "handle"}
            /\ (pc'[t] = "idle" => status'[t] = 400)
            /\ ((Acts(t) \/ nreq' # nreq) => UNCHANGED store)]_vars

C3_Witness ==
    \E t \in Threads :
        /\ req[t].signature = "invalid"
        /\ pc[t] = "idle"
        /\ status[t] = 400
        /\ \E u \in Users : chat_histories[u] # 0

C5_SplitSegments ==
    fmt_pc = "out" =>
        /\ Len(fmt_out) = Delimiters(fmt_in) + 1
        /\ Join(fmt_out) = fmt_in
        /\ \A i \in DOMAIN fmt_out : Delimiters(fmt_out[i]) = 0
        /\ \A i \in 1..(Len(fmt_out) - 1) :
             fmt_out[i] = <<>> \/ Last(fmt_out[i]) # NL

C5_Witness ==
    /\ fmt_pc = "out"
    /\ fmt_in = <<"a", NL, NL, "b">>
    /\ fmt_out = << <<"a">>, <<"b">> >>

C7_AppendOnly ==
    [][\A u \in Users :
         chat_histories[u] # 0 =>
            /\ chat_histories'[u] # 0
            /\ IsPrefix(heap[chat_histories[u]], heap'[chat_histories'[u]])]_vars

\* C8: the history a handler passes to the completion API is the sender's
\* stored history and holds the user message the handler appended; the
\* handler makes one completion call.
C8_GatewaySeesOwnMessage ==
    [][\A t \in Threads :
         (Len(log'[t]) > Len(log[t]) /\ Last(log'[t]) = "gateway") =>
            /\ sent'[t] = History(req[t].user)
            /\ UserMessage(req[t]) \in Range(sent'[t])
            /\ Occurrences(log'[t], "gateway") = 1]_vars

\* C9: a step of a request of one user leaves the entry and the list of every
\* other user unchanged, and no list object is reachable from two users.
C9_UsersIndependent ==
    [][/\ \A t \in Threads : \A u \in Users :
            (Acts(t) /\ req'[t].user # u) =>
                /\ chat_histories'[u] = chat_histories[u]
                /\ History(u)' = History(u)
       /\ \A u1, u2 \in Users :
            (u1 # u2 /\ chat_histories'[u1] # 0) =>
                chat_histories'[u1] # chat_histories'[u2]
       /\ \A t \in Threads : \A u \in Users :
            (history'[t] # 0 /\ history'[t] = chat_histories'[u]) =>
                req'[t].user = u]_vars

C9_Witness ==
    \E u1, u2 \in Users :
        /\ u1 # u2
        /\ Len(History(u1)) = 3
        /\ Len(History(u2)) = 2
        /\ errCount[u2] = 1

\* C10: an image request whose download or upload fails is answered 500 with
\* no user message appended, no completion call and no reply; no step of an
\* image request changes the store before its upload has succeeded, and the
\* image message is appended after the download and the upload.
C10_MediaFailureNoEffect ==
    [][\A t \in Threads :
         req'[t].type = "image" =>
            /\ err'[t] \in {"download", "upload"} =>
                 /\ status'[t] = 500
                 /\ Turn(t)' = <<>>
                 /\ sent'[t] = <<>>
                 /\ replied'[t] = <<>>
            /\ (Acts(t) /\ "upload" \notin Range(log'[t])) => UNCHANGED store
            /\ "append_user" \in Range(log'[t]) =>
                 SubSeq(log'[t], 1, 3) = <<"download", "upload", "append_user">>]_vars

C10_Witness ==
    \E t \in Threads :
        /\ req[t].type = "image"
        /\ pc[t] = "idle"
        /\ err[t] = "upload"
        /\ status[t] = 500
        /\ Len(History(req[t].user)) = 3

====
